---- MODULE Spec2Model ----
(***************************************************************************)
(* Model of gsdmm/mgp.py: MovieGroupProcess.fit, the collapsed Gibbs       *)
(* sampler of a Dirichlet multinomial mixture, and MovieGroupProcess.      *)
(* _sample.  One run of fit(docs, V) on an object built by                 *)
(* __init__(K, alpha, beta, n_iters) is a behaviour; the random source     *)
(* (numpy.random.multinomial) is the nondeterministic choice of a label    *)
(* among the labels of positive probability.                               *)
(*                                                                         *)
(* Numbers.  alpha and beta are drawn from integers, so every quantity     *)
(* the code logs is an integer, except V * beta, which is a float64 that   *)
(* may be +inf (V = float('inf')) or NaN (inf * 0).  A float64 is a record *)
(* [k, v]: k = "fin" with the integer v, or "pinf", "ninf", "nan".  A      *)
(* value in the log domain is a record [k, num, den]: k = "fin" stands for *)
(* log(num/den), so that exp() gives back the exact ratio num/den.         *)
(***************************************************************************)
EXTENDS Integers, Sequences, FiniteSets, TLC

\* ------------------------------------------------------------------ bounds
MaxD == 2
MaxK == 2
MaxIters == 2

\* ------------------------------------------------------------------ inputs
Tokens == {"a", "b"}

\* documents: empty, single token, repeated token, two distinct tokens
DocPool == {<<>>, <<"a">>, <<"b">>, <<"a", "a">>, <<"a", "b">>}

DocLists == UNION {[1..n -> DocPool] : n \in 0..MaxD}

\* ------------------------------------------------------------------ float64
Fin(x) == [k |-> "fin", v |-> x]
PInf == [k |-> "pinf", v |-> 0]
NInf == [k |-> "ninf", v |-> 0]
NaN == [k |-> "nan", v |-> 0]

\* x * y of a float64 x by an integer y >= 0 (V * beta)
FMulInt(x, y) ==
    IF x.k = "fin" THEN Fin(x.v * y)
    ELSE IF x.k = "nan" THEN NaN
    ELSE IF y = 0 THEN NaN
    ELSE x

\* x + y of a float64 x and an integer y
FAddInt(x, y) == IF x.k = "fin" THEN Fin(x.v + y) ELSE x

\* x + y of two float64
FAdd(x, y) ==
    IF x.k = "nan" \/ y.k = "nan" THEN NaN
    ELSE IF x.k = "fin" THEN FAddInt(y, x.v)
    ELSE IF y.k = "fin" THEN x
    ELSE IF x.k = y.k THEN x
    ELSE NaN

\* x > 0 (False for NaN)
FGt0(x) == x.k = "pinf" \/ (x.k = "fin" /\ x.v > 0)

\* ------------------------------------------------------------------ log domain
LFin(a, b) == [k |-> "fin", num |-> a, den |-> b]
LPInf == [k |-> "pinf", num |-> 0, den |-> 1]
LNInf == [k |-> "ninf", num |-> 0, den |-> 1]
LNaN == [k |-> "nan", num |-> 0, den |-> 1]

\* the literal 0 the code substitutes for a logarithm: log(1)
LZero == LFin(1, 1)

\* numpy.log of a float64: -inf at 0 and NaN below 0 (with a warning only)
Log(x) ==
    IF x.k = "pinf" THEN LPInf
    ELSE IF x.k = "fin" /\ x.v > 0 THEN LFin(x.v, 1)
    ELSE IF x.k = "fin" /\ x.v = 0 THEN LNInf
    ELSE LNaN

LNeg(x) ==
    IF x.k = "fin" THEN LFin(x.den, x.num)
    ELSE IF x.k = "pinf" THEN LNInf
    ELSE IF x.k = "ninf" THEN LPInf
    ELSE LNaN

LAdd(x, y) ==
    IF x.k = "nan" \/ y.k = "nan" THEN LNaN
    ELSE IF x.k = "fin" /\ y.k = "fin" THEN LFin(x.num * y.num, x.den * y.den)
    ELSE IF x.k = "fin" THEN y
    ELSE IF y.k = "fin" THEN x
    ELSE IF x.k = y.k THEN x
    ELSE LNaN

LSub(x, y) == LAdd(x, LNeg(y))

\* numpy.exp: a weight [k, num, den], k = "fin" for the ratio num/den
Exp(x) ==
    IF x.k = "fin" THEN [k |-> "fin", num |-> x.num, den |-> x.den]
    ELSE IF x.k = "pinf" THEN [k |-> "pinf", num |-> 0, den |-> 1]
    ELSE IF x.k = "ninf" THEN [k |-> "fin", num |-> 0, den |-> 1]
    ELSE [k |-> "nan", num |-> 0, den |-> 1]

\* ------------------------------------------------------------------ state
VARIABLES
    docs,             \* fit argument: the documents, a sequence of token sequences
    V,                \* fit argument: the vocabulary size, a float64
    K, alpha, beta, n_iters,    \* the fields set by __init__
    d_z,              \* label of each document, None until initialised
    m_z,              \* documents per cluster
    n_z,              \* tokens per cluster
    n_z_w,            \* per cluster, the dict token -> count
    pc,               \* position in fit
    iter,             \* _iter of the sweep loop
    i,                \* index of the document of the current loop
    z_old,            \* label the current document was removed from
    p,                \* the K weights of the current document
    total_transfers,  \* transfers of the current sweep
    events,           \* the lines printed, one record per line
    ret,              \* the value fit returned
    err               \* the exception that ended fit, "" if none

vars == <<docs, V, K, alpha, beta, n_iters, d_z, m_z, n_z, n_z_w, pc, iter, i,
          z_old, p, total_transfers, events, ret, err>>

inputs == <<docs, V, K, alpha, beta, n_iters>>

None == -1

D == Len(docs)

\* docs[i] of the code (0-based)
Doc(j) == docs[j + 1]

Labels == 0..(K - 1)

\* ------------------------------------------------------------------ statistics
\* sum of the values of a dict
RECURSIVE DictSum(_)
DictSum(w) ==
    IF DOMAIN w = {} THEN 0
    ELSE LET t == CHOOSE t \in DOMAIN w : TRUE
         IN w[t] + DictSum([u \in DOMAIN w \ {t} |-> w[u]])

\* n_z_w[z].get(word, 0)
Get(w, word) == IF word \in DOMAIN w THEN w[word] ELSE 0

\* AddWord with the bug of a set of tokens: the entry is set to 1, not incremented
AddWord_SetOne(w, word) ==
    [t \in DOMAIN w \cup {word} |-> IF t = word THEN 1 ELSE w[t]]

\* lines 74-76 and 124-126: create the entry at 0 when missing, then increment
AddWord(w, word) ==
    [t \in DOMAIN w \cup {word} |-> IF t = word THEN Get(w, word) + 1 ELSE w[t]]

\* AddWords that stops after the first token of the document
AddWords_FirstOnly(w, doc) == IF doc = <<>> THEN w ELSE AddWord(w, Head(doc))

\* the loops of lines 73-76 and 123-126
RECURSIVE AddWords(_, _)
AddWords(w, doc) ==
    IF doc = <<>> THEN w ELSE AddWords(AddWord(w, Head(doc)), Tail(doc))

\* RemoveWord without the compaction of lines 93-94
RemoveWord_NoDelete(w, word) == [w EXCEPT ![word] = @ - 1]

\* lines 90-94: decrement, and delete the entry when it reaches 0
RemoveWord(w, word) ==
    IF w[word] - 1 = 0
    THEN [t \in DOMAIN w \ {word} |-> w[t]]
    ELSE [w EXCEPT ![word] = @ - 1]

\* the loop of lines 89-94; ok is FALSE when a key is missing (KeyError)
RECURSIVE RemoveWords(_, _)
RemoveWords(w, doc) ==
    IF doc = <<>> THEN [ok |-> TRUE, w |-> w]
    ELSE IF Head(doc) \notin DOMAIN w THEN [ok |-> FALSE, w |-> w]
    ELSE RemoveWords(RemoveWord(w, Head(doc)), Tail(doc))

\* ------------------------------------------------------------------ weights
\* line 99
N1(label) == m_z[label] + alpha

\* line 102: the argument of the logarithm
D1 == D - 1 + K * alpha

\* lines 104-105: the numerator total
RECURSIVE NumTotal(_, _)
NumTotal(label, doc) ==
    IF doc = <<>> THEN 0
    ELSE Get(n_z_w[label], Head(doc)) + beta + NumTotal(label, Tail(doc))

\* line 107: one term of the denominator total
DenTerm(label, j) ==
    FAddInt(FAddInt(FAdd(Fin(n_z[label]), FMulInt(V, beta)), j), -1)

\* lines 106-107: the denominator total over j = 0 .. len - 1
RECURSIVE DenTotal(_, _)
DenTotal(label, len) ==
    IF len = 0 THEN Fin(0)
    ELSE FAdd(DenTotal(label, len - 1), DenTerm(label, len - 1))

\* line 100
LN1(label) == IF N1(label) > 0 THEN Log(Fin(N1(label))) ELSE LZero

\* line 102
LD1 == Log(Fin(D1))

\* line 108
LN2(label, doc) ==
    IF NumTotal(label, doc) > 0 THEN Log(Fin(NumTotal(label, doc))) ELSE LZero

\* line 109
LD2(label, doc) ==
    IF FGt0(DenTotal(label, Len(doc))) THEN Log(DenTotal(label, Len(doc)))
    ELSE LZero

\* line 110
Weight(label, doc) ==
    Exp(LSub(LAdd(LSub(LN1(label), LD1), LN2(label, doc)), LD2(label, doc)))

\* ------------------------------------------------------------------ sampling
WZero == [k |-> "fin", num |-> 0, den |-> 1]

WAdd(x, y) ==
    IF x.k = "nan" \/ y.k = "nan" THEN [k |-> "nan", num |-> 0, den |-> 1]
    ELSE IF x.k = "pinf" \/ y.k = "pinf" THEN [k |-> "pinf", num |-> 0, den |-> 1]
    ELSE [k |-> "fin", num |-> x.num * y.den + y.num * x.den, den |-> x.den * y.den]

\* line 113: sum(p)
RECURSIVE SumUpTo(_, _)
SumUpTo(q, n) == IF n = 0 THEN WZero ELSE WAdd(SumUpTo(q, n - 1), q[n - 1])

Pnorm(q) == SumUpTo(q, K)

\* pp / pnorm of two float64: 0/0 and inf/inf are NaN, finite/inf is 0
WDiv(x, y) ==
    IF x.k = "nan" \/ y.k = "nan" THEN [k |-> "nan", num |-> 0, den |-> 1]
    ELSE IF y.k = "pinf"
         THEN IF x.k = "pinf" THEN [k |-> "nan", num |-> 0, den |-> 1] ELSE WZero
    ELSE IF y.num = 0
         THEN IF x.k = "pinf" \/ x.num > 0
              THEN [k |-> "pinf", num |-> 0, den |-> 1]
              ELSE [k |-> "nan", num |-> 0, den |-> 1]
    ELSE IF x.k = "pinf" THEN x
    ELSE [k |-> "fin", num |-> x.num * y.den, den |-> x.den * y.num]

\* line 114: the vector handed to _sample
Normalized(q) == [label \in Labels |-> WDiv(q[label], Pnorm(q))]

\* index of the last entry of a vector indexed from 0
LastIndex(q) == Cardinality(DOMAIN q) - 1

\* a sum of pvals that is below 1
WLt1(x) == x.k = "fin" /\ x.num < x.den

\* a sum of pvals that is at most 1
WLe1(x) == x.k = "fin" /\ x.num <= x.den

\* numpy's multinomial accepts pvals only when every entry is in [0, 1]
\* (NaN is not) and sum(pvals[:-1]) <= 1; the last entry is never summed.
\* An empty vector gives an empty array, of which _sample has no [0]
ValidPvals(q) ==
    /\ DOMAIN q # {}
    /\ \A label \in DOMAIN q :
          q[label].k = "fin" /\ q[label].num >= 0 /\ q[label].num <= q[label].den
    /\ WLe1(SumUpTo(q, LastIndex(q)))

\* line 46: the indices _sample can return. multinomial(1, q) walks the
\* entries before the last, giving the single trial to entry j with
\* probability q[j] / (1 - sum(q[:j])), and leaves it to the last entry when
\* none took it, whatever the last entry's own value
SampleSet(q) ==
    {label \in DOMAIN q :
        /\ WLt1(SumUpTo(q, label))
        /\ (label = LastIndex(q) \/ q[label].num > 0)}

\* line 68: the uniform vector of the initialisation
Uniform == [label \in Labels |-> [k |-> "fin", num |-> 1, den |-> K]]

\* ------------------------------------------------------------------ operations
\* __init__ (lines 32-35) stores its arguments unchecked; lines 57-62 of fit
Init ==
    /\ docs \in DocLists
    /\ V \in {Fin(Cardinality(Tokens)), PInf}
    /\ K \in -1..MaxK
    /\ alpha \in {0, 1}
    /\ beta \in {0, 1}
    /\ n_iters \in -1..MaxIters
    /\ d_z = [j \in 0..(Len(docs) - 1) |-> None]
    /\ m_z = [z \in 0..(K - 1) |-> 0]
    /\ n_z = [z \in 0..(K - 1) |-> 0]
    /\ n_z_w = [z \in 0..(K - 1) |-> <<>>]
    /\ pc = IF Len(docs) = 0 THEN "loop" ELSE "init"
    /\ iter = 0
    /\ i = 0
    /\ z_old = None
    /\ p = <<>>
    /\ total_transfers = 0
    /\ events = <<>>
    /\ ret = <<>>
    /\ err = ""

\* AddM that sets the count to 1 instead of incrementing it
AddM_SetOne(z) == [m_z EXCEPT ![z] = 1]

\* lines 70-76 and 121-126: the statistics after adding doc to cluster z
AddM(z) == [m_z EXCEPT ![z] = @ + 1]
\* AddN that counts the document, not its tokens
AddN_CountDoc(z, doc) == [n_z EXCEPT ![z] = @ + 1]

AddN(z, doc) == [n_z EXCEPT ![z] = @ + Len(doc)]
AddW(z, doc) == [n_z_w EXCEPT ![z] = AddWords(@, doc)]

\* RemoveM without the decrement of line 86
RemoveM_NoDecrement(z) == m_z

\* lines 86-94: the statistics after removing doc from cluster z
RemoveM(z) == [m_z EXCEPT ![z] = @ - 1]
\* RemoveN without the decrement of line 87
RemoveN_NoDecrement(z, doc) == n_z

RemoveN(z, doc) == [n_z EXCEPT ![z] = @ - Len(doc)]
RemoveW(z, doc) == [n_z_w EXCEPT ![z] = RemoveWords(@, doc).w]

\* AfterDoc of a loop that stops one document early
AfterDoc_OffByOne(j, next, last) == IF j + 2 < D THEN next ELSE last

\* position after document j of a loop over docs
AfterDoc(j, next, last) == IF j + 1 < D THEN next ELSE last

\* lines 65-76: one document of the initialisation
InitDoc ==
    /\ pc = "init"
    /\ ValidPvals(Uniform)
    /\ \E z \in SampleSet(Uniform) :
          /\ d_z' = [d_z EXCEPT ![i] = z]
          /\ m_z' = AddM(z)
          /\ n_z' = AddN(z, Doc(i))
          /\ n_z_w' = AddW(z, Doc(i))
    /\ i' = i + 1
    /\ pc' = AfterDoc(i, "init", "loop")
    /\ UNCHANGED <<inputs, iter, z_old, p, total_transfers, events, ret, err>>

\* line 68 with K <= 0: _sample gets an empty vector, multinomial returns an
\* empty array and [...][0] raises IndexError
InitFails ==
    /\ pc = "init"
    /\ ~ValidPvals(Uniform)
    /\ pc' = "error"
    /\ err' = "IndexError"
    /\ UNCHANGED <<inputs, d_z, m_z, n_z, n_z_w, iter, i, z_old, p,
                   total_transfers, events, ret>>

\* SweepsLeft of a loop over range(n_iters - 1)
SweepsLeft_OneLess == iter < n_iters - 1

\* SweepsLeft of a loop over range(n_iters + 1)
SweepsLeft_Inclusive == iter <= n_iters

\* line 78: range(n_iters) has another _iter
SweepsLeft == iter < n_iters

\* lines 78-79: enter the body of the sweep loop
StartSweep ==
    /\ pc = "loop"
    /\ SweepsLeft
    /\ total_transfers' = 0
    /\ i' = 0
    /\ pc' = IF D = 0 THEN "report" ELSE "remove"
    /\ UNCHANGED <<inputs, d_z, m_z, n_z, n_z_w, iter, z_old, p, events, ret, err>>

\* lines 84-94: remove docs[i] from its cluster; KeyError on a missing key
RemoveDoc ==
    /\ pc = "remove"
    /\ z_old' = d_z[i]
    /\ m_z' = RemoveM(d_z[i])
    /\ n_z' = RemoveN(d_z[i], Doc(i))
    /\ n_z_w' = RemoveW(d_z[i], Doc(i))
    /\ IF RemoveWords(n_z_w[d_z[i]], Doc(i)).ok
       THEN pc' = "weights" /\ err' = err
       ELSE pc' = "error" /\ err' = "KeyError"
    /\ UNCHANGED <<inputs, d_z, iter, i, p, total_transfers, events, ret>>

\* lines 97-110: the K weights of docs[i]
ComputeWeights ==
    /\ pc = "weights"
    /\ p' = [label \in Labels |-> Weight(label, Doc(i))]
    /\ pc' = "draw"
    /\ UNCHANGED <<inputs, d_z, m_z, n_z, n_z_w, iter, i, z_old,
                   total_transfers, events, ret, err>>

\* Transfers of a counter that counts every move, also one that keeps the label
Transfers_CountAll(z_new) == total_transfers + 1

\* lines 117-118
Transfers(z_new) == IF z_new # z_old THEN total_transfers + 1 ELSE total_transfers

\* lines 113-126: normalise, draw z_new and add docs[i] to it
DrawAndAdd ==
    /\ pc = "draw"
    /\ ValidPvals(Normalized(p))
    /\ \E z_new \in SampleSet(Normalized(p)) :
          /\ total_transfers' = Transfers(z_new)
          /\ d_z' = [d_z EXCEPT ![i] = z_new]
          /\ m_z' = AddM(z_new)
          /\ n_z' = AddN(z_new, Doc(i))
          /\ n_z_w' = AddW(z_new, Doc(i))
    /\ i' = i + 1
    /\ pc' = AfterDoc(i, "remove", "report")
    /\ UNCHANGED <<inputs, iter, z_old, p, events, ret, err>>

\* lines 113-114 when pp / pnorm is NaN (a zero, infinite or NaN sum):
\* multinomial rejects the vector with ValueError
DrawFails ==
    /\ pc = "draw"
    /\ ~ValidPvals(Normalized(p))
    /\ pc' = "error"
    /\ err' = "ValueError"
    /\ UNCHANGED <<inputs, d_z, m_z, n_z, n_z_w, iter, i, z_old, p,
                   total_transfers, events, ret>>

\* line 128: sum([1 for v in m_z if v > 0])
Populated == Cardinality({z \in DOMAIN m_z : m_z[z] > 0})

\* lines 127-128: the line printed at the end of a sweep
Report ==
    /\ pc = "report"
    /\ events' = Append(events, [sweepIndex |-> iter,
                                 transfers |-> total_transfers,
                                 populated |-> Populated])
    /\ iter' = iter + 1
    /\ pc' = "loop"
    /\ UNCHANGED <<inputs, d_z, m_z, n_z, n_z_w, i, z_old, p, total_transfers,
                   ret, err>>

\* line 129
Return ==
    /\ pc = "loop"
    /\ ~SweepsLeft
    /\ ret' = d_z
    /\ pc' = "done"
    /\ UNCHANGED <<inputs, d_z, m_z, n_z, n_z_w, iter, i, z_old, p,
                   total_transfers, events, err>>

Next ==
    \/ InitDoc
    \/ InitFails
    \/ StartSweep
    \/ RemoveDoc
    \/ ComputeWeights
    \/ DrawAndAdd
    \/ DrawFails
    \/ Report
    \/ Return

Spec == Init /\ [][Next]_vars

\* ------------------------------------------------------------------ types
TypeOK ==
    /\ pc \in {"init", "loop", "remove", "weights", "draw", "report", "done", "error"}
    /\ err \in {"", "IndexError", "KeyError", "ValueError"}
    /\ DOMAIN d_z = 0..(D - 1)
    /\ DOMAIN m_z = Labels /\ DOMAIN n_z = Labels /\ DOMAIN n_z_w = Labels

\* ------------------------------------------------------------------ claims
SumM == DictSum(m_z)

\* positions of fit between two document moves, initialisation finished
BetweenMoves == pc \in {"loop", "remove", "report", "done"}

\* positions of fit between the remove and the add of one move
MidMove == pc \in {"weights", "draw"}

\* C1: once initialisation has finished, the sum over the clusters of m_z is
\* D before and after every document move, and it is D - 1 exactly between
\* the remove and the add of a move.
C1_SumOfM ==
    /\ BetweenMoves => SumM = D
    /\ MidMove => SumM = D - 1

\* a second document of the second sweep is between its remove and its add
C1_Witness ==
    /\ pc = "draw" /\ iter = 1 /\ i = 1 /\ K = 2
    /\ SumM = D - 1
    /\ m_z[0] = 1 /\ m_z[1] = 0

\* C2: for every cluster, after every completed add or remove, the counts of
\* its wordCount dict sum to n_z of the cluster, also with repeated tokens and
\* with empty documents.
C2_WordCountSum == \A z \in Labels : DictSum(n_z_w[z]) = n_z[z]

\* a document with a repeated token sits with another one in a cluster, after
\* a sweep, next to an empty document
C2_Witness ==
    /\ pc = "remove" /\ iter = 1 /\ D = 2
    /\ Doc(0) = <<"a", "a">> /\ Doc(1) = <<>>
    /\ d_z[0] = d_z[1]
    /\ n_z[d_z[0]] = 2 /\ DictSum(n_z_w[d_z[0]]) = 2

\* C3: after every completed add or remove no wordCount dict holds an entry
\* <= 0; a token decremented to 0 is deleted, also when the removed document
\* holds it several times.
C3_NoEmptyEntry ==
    \A z \in Labels : \A t \in DOMAIN n_z_w[z] : n_z_w[z][t] > 0

\* the document <<a, a>> was removed from a cluster that held no other a
C3_Witness ==
    /\ pc = "weights" /\ Doc(i) = <<"a", "a">>
    /\ "a" \notin DOMAIN n_z_w[z_old]
    /\ "b" \in DOMAIN n_z_w[z_old]

\* C4: for K >= 1 and n_iters >= 0, the vector fit returns has one entry per
\* document and every entry is a label in [0, K), none is None.
C4_ReturnedLabels ==
    (pc = "done" /\ K >= 1 /\ n_iters >= 0) =>
        /\ DOMAIN ret = 0..(D - 1)
        /\ \A j \in DOMAIN ret : ret[j] \in 0..(K - 1)

\* fit returned after two sweeps over two documents in different clusters
C4_Witness ==
    /\ pc = "done" /\ K = 2 /\ n_iters = 2 /\ D = 2
    /\ ret[0] = 1 /\ ret[1] = 0

\* C5: with n_iters = 0, fit returns the assignment of the initialisation
\* pass: once the initialisation is over the only step is the return of d_z,
\* no statistic changes and no progress event is ever emitted.
C5_ZeroIters ==
    [][n_iters = 0 =>
        /\ pc' \notin {"remove", "weights", "draw", "report"}
        /\ events' = <<>>
        /\ pc = "loop" =>
              /\ pc' = "done" /\ ret' = d_z
              /\ UNCHANGED <<d_z, m_z, n_z, n_z_w>>]_vars

\* fit returned two initial labels with n_iters = 0
C5_Witness ==
    /\ pc = "done" /\ n_iters = 0 /\ D = 2 /\ K = 2
    /\ ret = d_z /\ ret[0] = 0 /\ ret[1] = 1 /\ events = <<>>

\* C6 (as claimed): with K = 1 and a finite V, fit never fails, a label is
\* 0 from the moment the initialisation sets it, and after the initialisation
\* (before, during and after every move of every sweep, and at the return)
\* every document has label 0.
C6_SingleCluster ==
    (K = 1 /\ V.k = "fin" /\ n_iters >= 0) =>
        /\ pc # "error"
        /\ \A j \in DOMAIN d_z : d_z[j] \in {None, 0}
        /\ pc # "init" => \A j \in DOMAIN d_z : d_z[j] = 0
        /\ pc = "done" => ret = d_z

\* C7 (as claimed): with alpha = 0, no draw of a sweep assigns a document to
\* a cluster that has no document at the moment of the draw.
C7_NoEmptyTable ==
    [][(alpha = 0 /\ pc = "draw" /\ pc' # "error") => m_z[d_z'[i]] > 0]_vars

\* C8 (as claimed): with K <= 0 or n_iters < 0 no document is ever sampled
\* and fit never returns.
C8_InvalidConfigRejected ==
    (K <= 0 \/ n_iters < 0) =>
        /\ pc # "done"
        /\ \A j \in DOMAIN d_z : d_z[j] = None

\* the weights of the current document sum to zero
ZeroSum == Pnorm(p).k = "fin" /\ Pnorm(p).num = 0

\* C9 (as claimed): when the weights sum to zero at the normalisation, the run
\* ends in the NumericUnderflow failure.
C9_NumericUnderflow ==
    [][(pc = "draw" /\ ZeroSum) => (pc' = "error" /\ err' = "NumericUnderflow")]_vars

\* C10 (as claimed): with zero documents the body of the sweep loop is never
\* entered and no progress event is emitted.
C10_NoDocsNoSweep ==
    (D = 0 /\ K >= 1 /\ n_iters > 0) => (pc \in {"loop", "done"} /\ events = <<>>)

\* ------------------------------------------------------------------ C11
\* 1 when the step changes the label of the current document, else 0
LabelChanged == IF d_z'[i] # d_z[i] THEN 1 ELSE 0

\* C11: one progress event per completed sweep, emitted once the last document
\* of the sweep is re-added and before the next sweep starts; its index is the
\* number of sweeps completed before, its transfer count is the number of moves
\* of this sweep that changed the label of their document (counted from 0 in
\* every sweep), its populated count is the number of clusters with m_z > 0.
C11_ProgressEvent ==
    [][/\ Len(events) = iter
       /\ (pc = "loop" /\ pc' # "done") => (total_transfers' = 0 /\ events' = events)
       /\ (pc = "draw" /\ pc' # "error") =>
             /\ total_transfers' = total_transfers + LabelChanged
             /\ events' = events
       /\ pc = "report" =>
             /\ i = D
             /\ pc' = "loop"
             /\ events' = Append(events,
                    [sweepIndex |-> Len(events),
                     transfers |-> total_transfers,
                     populated |-> Cardinality({z \in Labels : m_z[z] > 0})])
       /\ pc \notin {"loop", "draw", "report"} =>
             (events' = events /\ total_transfers' = total_transfers)]_vars

\* two sweeps are reported: two transfers in the first, one in the second, and
\* a single cluster is populated at the end
C11_Witness ==
    /\ pc = "loop" /\ Len(events) = 2 /\ D = 2 /\ K = 2
    /\ events[1] = [sweepIndex |-> 0, transfers |-> 2, populated |-> 2]
    /\ events[2] = [sweepIndex |-> 1, transfers |-> 1, populated |-> 1]

\* ------------------------------------------------------------------ C13, C19
\* occurrences of token t in doc
Occ(doc, t) == Cardinality({k \in 1..Len(doc) : doc[k] = t})

\* the documents of the set S that carry label z
DocsIn(z, S) == {j \in S : d_z[j] = z}

\* the statistics of cluster z counted from the documents of S and their labels
AggM(z, S) == Cardinality(DocsIn(z, S))
AggN(z, S) == DictSum([j \in DocsIn(z, S) |-> Len(Doc(j))])
AggOcc(z, S, t) == DictSum([j \in DocsIn(z, S) |-> Occ(Doc(j), t)])
AggW(z, S) ==
    [t \in {u \in Tokens : AggOcc(z, S, u) > 0} |-> AggOcc(z, S, t)]

\* m_z, n_z and n_z_w are the aggregate of the labels of the documents of S
StatsOf(S) ==
    \A z \in Labels :
        /\ m_z[z] = AggM(z, S)
        /\ n_z[z] = AggN(z, S)
        /\ n_z_w[z] = AggW(z, S)

AllDocs == 0..(D - 1)

\* C13: in every move the removal is complete before a weight is computed:
\* while the weights of document i are computed and until its label is drawn,
\* the statistics hold no contribution of document i (they are the aggregate
\* of the other documents, sum of m_z = D - 1), and the weights drawn from are
\* the weights of these statistics.
C13_RemovedBeforeWeights ==
    /\ MidMove => (StatsOf(AllDocs \ {i}) /\ SumM = D - 1)
    /\ pc = "draw" => p = [label \in Labels |-> Weight(label, Doc(i))]

\* the second of two documents <<a, a>> of one cluster is removed: the cluster
\* keeps the two a of the first only
C13_Witness ==
    /\ pc = "draw" /\ D = 2 /\ i = 1 /\ K = 2
    /\ Doc(0) = <<"a", "a">> /\ Doc(1) = <<"a", "a">>
    /\ d_z[0] = 1 /\ d_z[1] = 1 /\ z_old = 1
    /\ m_z[1] = 1 /\ n_z[1] = 2 /\ n_z_w[1]["a"] = 2

\* C19: after the initialisation and after every completed move, the
\* statistics are the aggregate of the assignment vector: m_z[z] documents
\* carry label z, n_z[z] is the sum of their lengths and n_z_w[z][t] the
\* occurrences of t in them, absent when 0.
C19_StatsAreAggregate == BetweenMoves => StatsOf(AllDocs)

\* in the second sweep, document 0 was moved from cluster 0 to cluster 1 and
\* document 1 still has the label of the first sweep
C19_Witness ==
    /\ pc = "remove" /\ iter = 1 /\ i = 1 /\ D = 2 /\ K = 2
    /\ Doc(0) = <<"a", "b">> /\ Doc(1) = <<"a", "a">>
    /\ d_z[0] = 1 /\ d_z[1] = 0
    /\ n_z_w[0] = [t \in {"a"} |-> 2]
    /\ n_z_w[1] = [t \in {"a", "b"} |-> 1]
    /\ total_transfers = 1

\* ------------------------------------------------------------------ C14, C15
\* the term of position j as the specification states it: n + V * beta + j
SpecDenTerm(label, j) == FAddInt(FAdd(Fin(n_z[label]), FMulInt(V, beta)), j)

RECURSIVE SpecDenTotal(_, _)
SpecDenTotal(label, len) ==
    IF len = 0 THEN Fin(0)
    ELSE FAdd(SpecDenTotal(label, len - 1), SpecDenTerm(label, len - 1))

\* C14 (as claimed): for every label and every document, with an integer
\* V * beta, the denominator total that is logged is the sum over
\* j = 0 .. len(d) - 1 of n_z[label] + V * beta + j, n_z read after the removal.
C14_DenominatorTotal ==
    (pc = "weights" /\ V.k = "fin") =>
        \A label \in Labels :
            DenTotal(label, Len(Doc(i))) = SpecDenTotal(label, Len(Doc(i)))

\* C15 (as claimed): every quantity of the weight that is logged and is <= 0
\* has 0 substituted for its logarithm: m_z[label] + alpha, D - 1 + K * alpha,
\* the numerator total and the denominator total.
C15_LogSubstitution ==
    pc = "weights" =>
        \A label \in Labels :
            /\ N1(label) <= 0 => LN1(label) = LZero
            /\ D1 <= 0 => LD1 = LZero
            /\ NumTotal(label, Doc(i)) <= 0 => LN2(label, Doc(i)) = LZero
            /\ ~FGt0(DenTotal(label, Len(Doc(i)))) => LD2(label, Doc(i)) = LZero

\* ------------------------------------------------------------------ C16
\* the order of the steps of the loops over the documents
SweepOrder ==
    /\ pc = "init" /\ pc' # "error" =>
          (i' = i + 1 /\ pc' = IF i + 1 = D THEN "loop" ELSE "init")
    /\ pc = "loop" /\ pc' # "done" =>
          (iter < n_iters /\ i' = 0 /\ pc' = IF D = 0 THEN "report" ELSE "remove")
    /\ pc = "remove" => (i \in AllDocs /\ i' = i /\ d_z' = d_z)
    /\ pc = "weights" => (i' = i /\ d_z' = d_z /\ pc' = "draw")
    /\ pc = "draw" /\ pc' # "error" =>
          /\ i' = i + 1
          /\ \A j \in AllDocs \ {i} : d_z'[j] = d_z[j]
          /\ pc' = IF i + 1 = D THEN "report" ELSE "remove"
    /\ pc = "report" => (i = D /\ iter' = iter + 1 /\ pc' = "loop")
    /\ pc # "report" => iter' = iter

\* steps of one sweep: its start, three per document, its report
SweepSteps == 3 * D + 2

\* sweeps not yet started
SweepsToStart == IF n_iters > iter THEN n_iters - iter ELSE 0

\* steps left in the current sweep, the report included
StepsLeftInSweep ==
    IF pc = "remove" THEN 3 * (D - i) + 1
    ELSE IF pc = "weights" THEN 3 * (D - i)
    ELSE IF pc = "draw" THEN 3 * (D - i) - 1
    ELSE 1

\* an upper bound of the number of steps fit still takes
StepsLeft ==
    IF pc \in {"done", "error"} THEN 0
    ELSE IF pc = "init" THEN (D - i) + SweepsToStart * SweepSteps + 1
    ELSE IF pc = "loop" THEN SweepsToStart * SweepSteps + 1
    ELSE StepsLeftInSweep + (SweepsToStart - 1) * SweepSteps + 1

\* fit has returned or raised
Ended == pc \in {"done", "error"}

\* a step of fit is possible: _sample returns an index or raises
CanStep ==
    \/ pc \in {"loop", "remove", "weights", "report"}
    \/ pc = "init" /\ (~ValidPvals(Uniform) \/ SampleSet(Uniform) # {})
    \/ pc = "draw" /\ (~ValidPvals(Normalized(p)) \/ SampleSet(Normalized(p)) # {})

\* C16: for K >= 1 and n_iters >= 0 fit terminates: until it has returned or
\* the draw of a move has failed on weights that cannot be normalised, a step
\* is possible and every step lowers the bound StepsLeft >= 0; it returns
\* after exactly n_iters sweeps; a sweep moves the documents 0, 1, ..., D - 1
\* once each, in this order, and the next sweep starts after the last re-add.
C16_Terminates ==
    /\ [](StepsLeft >= 0 /\ (~Ended => CanStep))
    /\ []((K >= 1 /\ n_iters >= 0 /\ Ended) => (pc = "done" \/ err = "ValueError"))
    /\ []((pc = "done" /\ n_iters >= 0) => (iter = n_iters /\ Len(events) = n_iters))
    /\ [][StepsLeft' < StepsLeft /\ SweepOrder]_vars

\* fit returned after two sweeps over two documents
C16_Witness ==
    /\ pc = "done" /\ K = 2 /\ D = 2 /\ n_iters = 2
    /\ iter = 2 /\ i = 2 /\ Len(events) = 2
    /\ events[1].transfers = 1 /\ events[2].transfers = 2

\* ------------------------------------------------------------------ C17
\* C17: add is the inverse of remove: adding the removed document back to the
\* cluster it was removed from gives m_z, n_z and every n_z_w dict, key sets
\* included, their values before the remove; a draw that returns the old
\* label leaves the assignment and the transfer counter unchanged.
C17_AddInvertsRemove ==
    [][/\ (pc = "remove" /\ pc' = "weights") =>
             /\ AddM(d_z[i])' = m_z
             /\ AddN(d_z[i], Doc(i))' = n_z
             /\ AddW(d_z[i], Doc(i))' = n_z_w
       /\ (pc = "draw" /\ pc' # "error" /\ d_z'[i] = z_old) =>
             /\ d_z' = d_z
             /\ total_transfers' = total_transfers
             /\ m_z'[z_old] = m_z[z_old] + 1
             /\ n_z'[z_old] = n_z[z_old] + Len(Doc(i))]_vars

\* document 0 = <<a, a>> shared cluster 0 with document 1 = <<a, b>>, was
\* removed and drawn into cluster 0 again
C17_Witness ==
    /\ pc = "remove" /\ iter = 0 /\ i = 1 /\ K = 2 /\ D = 2
    /\ Doc(0) = <<"a", "a">> /\ Doc(1) = <<"a", "b">>
    /\ z_old = 0 /\ d_z[0] = 0 /\ d_z[1] = 0
    /\ total_transfers = 0
    /\ m_z[0] = 2 /\ n_z[0] = 4
    /\ n_z_w[0] = [t \in {"a", "b"} |-> IF t = "a" THEN 3 ELSE 1]

\* ------------------------------------------------------------------ C18
\* C18 (as claimed): a step that adds or removes an empty document (in the
\* initialisation, the remove and the add of a move) does not fail, changes
\* m_z of the cluster of the document by exactly 1 and leaves n_z and n_z_w
\* unchanged.
C18_EmptyDocument ==
    [][(K >= 1 /\ V.k = "fin" /\ pc \in {"init", "remove", "draw"} /\ Doc(i) = <<>>) =>
          /\ pc' # "error"
          /\ n_z' = n_z /\ n_z_w' = n_z_w
          /\ IF pc = "remove"
             THEN m_z' = [m_z EXCEPT ![d_z[i]] = @ - 1]
             ELSE m_z' = [m_z EXCEPT ![d_z'[i]] = @ + 1]]_vars

\* ------------------------------------------------------------------ C20
\* C20: the precondition of remove holds at every removal: the document
\* carries a label of a cluster that counts it, every token occurrence finds
\* its key in the dict of the cluster at its decrement (no KeyError), and no
\* counter of any cluster is negative in any reachable state.
C20_RemovePrecondition ==
    /\ err # "KeyError"
    /\ \A z \in Labels : m_z[z] >= 0 /\ n_z[z] >= 0
    /\ pc = "remove" =>
          /\ d_z[i] \in Labels
          /\ m_z[d_z[i]] >= 1
          /\ n_z[d_z[i]] >= Len(Doc(i))
          /\ RemoveWords(n_z_w[d_z[i]], Doc(i)).ok

\* the only document of cluster 1, <<a, a>>, was removed: its counters are 0
C20_Witness ==
    /\ pc = "weights" /\ iter = 1 /\ K = 2
    /\ Doc(i) = <<"a", "a">> /\ z_old = 1
    /\ m_z[1] = 0 /\ n_z[1] = 0 /\ n_z_w[1] = <<>>
    /\ m_z[0] = 1

====
